---- MODULE Spec2Model ----
(***************************************************************************)
(* Model of the jimeng4 image generator: the API client of main.py         *)
(* (generate_image, wait_for_result), the image savers, the CLI            *)
(* orchestrator main(), and the Flask handlers of app.py (generate,        *)
(* generate_image, serve_image, list_outputs).                             *)
(*                                                                         *)
(* Each component has its own variable (a record whose fields carry the    *)
(* names of the source's locals) and its own specification; a component's  *)
(* specification leaves the other components' variables at their idle     *)
(* value.                                                                  *)
(***************************************************************************)
EXTENDS Integers, Sequences, FiniteSets, TLC

VARIABLES wait, cli, web, saver, disk, serve, listing, signer

vars == <<wait, cli, web, saver, disk, serve, listing, signer>>

(***************************************************************************)
(* Bounds of the model.                                                    *)
(***************************************************************************)
\* largest polling timeout tried, in clock ticks
MaxTimeout == 5
\* largest poll interval tried, in clock ticks
MaxPoll == 2
\* longest time one status request takes to answer, in clock ticks
MaxLatency == 2
\* longest list of image descriptors handed to a saver
MaxDescr == 2
\* last second the wall clock reaches while a saver runs
MaxClock == 1
\* most lines in a prompt file
MaxLines == 2
\* longest data array in a provider response
MaxData == 2
\* generation invocations running side by side
MaxInv == 2
\* images one invocation saves
MaxFiles == 2
\* most segments in a requested path
MaxSegments == 3
\* directory names the output folder can hold besides the initial ones
MaxNames == 3

Idle == [pc |-> "idle"]

\* a step of one component leaves the others alone
OnlyWait == UNCHANGED <<cli, web, saver, disk, serve, listing, signer>>
OnlyCli == UNCHANGED <<wait, web, saver, disk, serve, listing, signer>>
OnlyWeb == UNCHANGED <<wait, cli, saver, disk, serve, listing, signer>>
OnlySaver == UNCHANGED <<wait, cli, web, disk, serve, listing, signer>>
OnlyDisk == UNCHANGED <<wait, cli, web, saver, serve, listing, signer>>
OnlyServe == UNCHANGED <<wait, cli, web, saver, disk, listing, signer>>
OnlySigner == UNCHANGED <<wait, cli, web, saver, disk, serve, listing>>
OnlyListing == UNCHANGED <<wait, cli, web, saver, disk, serve, signer>>

Max(a, b) == IF a >= b THEN a ELSE b
Min(a, b) == IF a <= b THEN a ELSE b

(***************************************************************************)
(* Jimeng4APIClient.wait_for_result (main.py 160-205).                     *)
(*                                                                         *)
(* wait.now is time.time() - start_time.  A status request answers after   *)
(* lat ticks with one of:                                                  *)
(*   "succeeded", "failed"  a 2xx response whose status field is terminal  *)
(*   "pending"              a 2xx response with any other status           *)
(*   "error"                requests raised RequestException (transport    *)
(*                          failure, or raise_for_status on a non-2xx)     *)
(* or never answers: requests.get is called without a timeout argument.    *)
(***************************************************************************)
Outcomes == {"succeeded", "failed", "pending", "error"}

\* main.py 189-193: the two statuses that make wait_for_result return
IsTerminalMutant(status) == status = "succeeded"
IsTerminal(status) == status \in {"succeeded", "failed"}

\* main.py 174: the loop condition  time.time() - start_time < timeout
LoopCondMutant(w) == w.now + w.poll_interval < w.timeout
LoopCond(w) == w.now < w.timeout

\* main.py 205: the synthetic result returned after the loop
TimeoutResult == [status |-> "timeout", error |-> "Task timed out"]

\* main.py 160, 172: entry of wait_for_result; start_time = time.time()
WaitInit ==
    \E t \in 0..MaxTimeout, p \in 1..MaxPoll :
        wait = [pc |-> "while", timeout |-> t, poll_interval |-> p, now |-> 0,
                polls |-> 0, result |-> [status |-> "none"],
                maxLat |-> 0, terminals |-> 0, last |-> "none"]

\* main.py 174, 203-205: the loop condition is false; return the timeout result
WaitTimeout ==
    /\ OnlyWait
    /\ wait.pc = "while"
    /\ ~LoopCond(wait)
    /\ wait' = [wait EXCEPT !.pc = "done", !.result = TimeoutResult]

\* main.py 174-183: the loop condition is true; prepare and send the GET
WaitRequest ==
    /\ OnlyWait
    /\ wait.pc = "while"
    /\ LoopCond(wait)
    /\ wait' = [wait EXCEPT !.pc = "get", !.polls = @ + 1]

\* main.py 185-193, 198-199: the request answers after lat ticks
WaitResponse ==
    /\ OnlyWait
    /\ wait.pc = "get"
    /\ \E o \in Outcomes, lat \in 0..MaxLatency :
        LET w == [wait EXCEPT !.now = @ + lat, !.last = o,
                              !.maxLat = Max(@, lat),
                              !.terminals = IF o \in {"succeeded", "failed"}
                                            THEN @ + 1 ELSE @]
        IN  IF IsTerminal(o)
            THEN wait' = [w EXCEPT !.pc = "done", !.result = [status |-> o]]
            ELSE wait' = [w EXCEPT !.pc = "sleep"]

\* main.py 196, 201: time.sleep(poll_interval)
WaitSleep ==
    /\ OnlyWait
    /\ wait.pc = "sleep"
    /\ wait' = [wait EXCEPT !.pc = "while", !.now = @ + wait.poll_interval]

\* main.py 180-183: requests.get without a timeout never answers
WaitHang ==
    /\ OnlyWait
    /\ wait.pc = "get"
    /\ wait' = [wait EXCEPT !.pc = "blocked"]

WaitNext == WaitTimeout \/ WaitRequest \/ WaitResponse \/ WaitSleep \/ WaitHang

InitWait ==
    /\ WaitInit
    /\ cli = Idle /\ web = Idle /\ saver = Idle
    /\ disk = Idle /\ serve = Idle /\ listing = Idle /\ signer = Idle

SpecWait == InitWait /\ [][WaitNext]_vars

(***************************************************************************)
(* save_images_from_base64 (main.py 207-250) and save_images (main.py      *)
(* 252-294).                                                               *)
(*                                                                         *)
(* An image descriptor is what the provider sent plus how the environment  *)
(* will treat it:                                                          *)
(*   url  "None" (absent), "not-a-url", or an https URL whose download     *)
(*        succeeds ("https://ok/img.jpg") or fails ("https://down/img.jpg":*)
(*        requests.get or raise_for_status raises)                         *)
(*   b64  "None" (absent), "bad" (b64decode raises) or "ok"                *)
(*   wr   whether open()/write() of its file succeeds                      *)
(* A path is <<second of datetime.now(), index>>, standing for             *)
(* output_dir/image_<timestamp>_<index>.jpg.                               *)
(***************************************************************************)
Urls == {"None", "not-a-url", "https://ok/img.jpg", "https://down/img.jpg"}
B64s == {"None", "bad", "ok"}
Descriptors == [url : Urls, b64 : B64s, wr : BOOLEAN]

\* main.py 278: url and url.startswith("http")
StartsWithHttp(url) == url \in {"https://ok/img.jpg", "https://down/img.jpg"}

\* main.py 269-292: the body of save_images' loop for one descriptor:
\* "skipped" (the else branch), "failed" (the except branch) or "saved"
SaveUrlOutcome(d) ==
    IF ~StartsWithHttp(d.url) THEN "skipped"
    ELSE IF d.url = "https://down/img.jpg" THEN "failed"
    ELSE IF ~d.wr THEN "failed"
    ELSE "saved"

\* main.py 225-248: the body of save_images_from_base64's loop
SaveB64Outcome(d) ==
    IF d.b64 = "None" THEN "skipped"
    ELSE IF d.b64 = "bad" THEN "failed"
    ELSE IF ~d.wr THEN "failed"
    ELSE "saved"

SaveOutcome(fn, d) == IF fn = "url" THEN SaveUrlOutcome(d) ELSE SaveB64Outcome(d)

\* main.py 223, 268: what the loop does after an iteration that failed
AfterFailureMutant(i, n) == n
AfterFailure(i, n) == i + 1

\* main.py 247, 291: "except Exception" catches whatever the iteration
\* raised, so no failure of a descriptor leaves the function
Propagates(o) == FALSE

\* main.py 207, 219-221 / 252, 264-266: entry; saved_files = []
SaverInit ==
    \E fn \in {"url", "b64"}, n \in 0..MaxDescr :
        \E data \in [1..n -> Descriptors] :
            saver = [pc |-> "for", fn |-> fn, images_data |-> data, i |-> 0,
                     now |-> 0, saved_files |-> <<>>, visited |-> <<>>,
                     written |-> <<>>, raised |-> FALSE]

\* the wall clock reaches the next second
SaverTick ==
    /\ OnlySaver
    /\ saver.pc = "for"
    /\ saver.now < MaxClock
    /\ saver' = [saver EXCEPT !.now = @ + 1]

\* main.py 223-248 / 268-292: one iteration of the for loop (i is 0-based,
\* as enumerate counts)
SaverIteration ==
    /\ OnlySaver
    /\ saver.pc = "for"
    /\ saver.i < Len(saver.images_data)
    /\ LET d == saver.images_data[saver.i + 1]
           o == SaveOutcome(saver.fn, d)
           path == <<saver.now, saver.i>>
       IN  saver' = [saver EXCEPT
                        !.pc = IF Propagates(o) THEN "done" ELSE @,
                        !.raised = Propagates(o),
                        !.visited = Append(@, saver.i),
                        !.written = IF o = "saved" THEN Append(@, path) ELSE @,
                        !.saved_files = IF o = "saved" THEN Append(@, path) ELSE @,
                        !.i = IF o = "failed"
                              THEN AfterFailure(@, Len(saver.images_data))
                              ELSE @ + 1]

\* main.py 250 / 294: return saved_files
SaverReturn ==
    /\ OnlySaver
    /\ saver.pc = "for"
    /\ saver.i >= Len(saver.images_data)
    /\ saver' = [saver EXCEPT !.pc = "done"]

SaverNext == SaverTick \/ SaverIteration \/ SaverReturn

InitSaver ==
    /\ SaverInit
    /\ wait = Idle /\ cli = Idle /\ web = Idle
    /\ disk = Idle /\ serve = Idle /\ listing = Idle /\ signer = Idle

SpecSaver == InitSaver /\ [][SaverNext]_vars

(***************************************************************************)
(* The CLI orchestrator main() (main.py 340-470), with                     *)
(* load_prompts_from_file (316-338) and Jimeng4APIClient.generate_image    *)
(* (106-158).                                                              *)
(*                                                                         *)
(* A text is a sequence of the characters " ", "#" and "a".  args holds    *)
(* the parsed command line: access_key / secret_key say whether the flag   *)
(* or the environment variable supplies a non-empty key, scale10 is        *)
(* args.scale in tenths.                                                   *)
(***************************************************************************)
RECURSIVE LStrip(_)
LStrip(t) == IF t # <<>> /\ Head(t) = " " THEN LStrip(Tail(t)) ELSE t
RECURSIVE RStrip(_)
RStrip(t) ==
    IF t # <<>> /\ t[Len(t)] = " " THEN RStrip(SubSeq(t, 1, Len(t) - 1)) ELSE t
\* str.strip()
Strip(t) == RStrip(LStrip(t))

\* main.py 381 (and app.py 174): valid_sizes
ValidSizes == {"1024x1024", "1024x1792", "1792x1024", "2048x2048",
               "2560x1440", "1440x2560"}
\* main.py 388: the bounds of args.count
MinCount == 1
MaxCount == 10
\* main.py 393: the bounds of args.scale, in tenths
MinScale10 == 0
MaxScale10 == 10

\* main.py 374: not access_key or not secret_key
CredentialsMissing(args) == ~args.access_key \/ ~args.secret_key
\* main.py 382: args.size not in valid_sizes
SizeInvalid(size) == size \notin ValidSizes
\* main.py 388: args.count < 1 or args.count > 10
CountInvalidMutant(count) == count > MaxCount
CountInvalid(count) == count < MinCount \/ count > MaxCount
\* main.py 393: args.scale < 0 or args.scale > 1
ScaleInvalidMutant(scale10) == scale10 < MinScale10 - 1 \/ scale10 > MaxScale10
ScaleInvalid(scale10) == scale10 < MinScale10 \/ scale10 > MaxScale10

\* main.py 330-333: keep the stripped lines that are neither empty nor comments
RECURSIVE KeepPrompts(_)
KeepPrompts(lines) ==
    IF lines = <<>> THEN <<>>
    ELSE LET line == Strip(Head(lines))
         IN  (IF line # <<>> /\ Head(line) # "#" THEN <<line>> ELSE <<>>)
                 \o KeepPrompts(Tail(lines))

\* main.py 316-338: an unreadable file is logged and yields no prompt
load_prompts_from_file(file) ==
    IF file.readable THEN KeepPrompts(file.lines) ELSE <<>>

\* main.py 397-414: the prompt list, <<>> standing for the sys.exit(1)
\* branches (and for input() raising EOFError, which nothing catches)
PromptList(args, stdin) ==
    IF args.file.given THEN load_prompts_from_file(args.file)
    ELSE IF args.prompt.given /\ args.prompt.text # <<>> THEN <<args.prompt.text>>
    ELSE IF ~stdin.eof /\ Strip(stdin.text) # <<>> THEN <<stdin.text>>
    ELSE <<>>

\* main.py 370-414: the first check that fails, in the order of the code
ValidationError(args, stdin) ==
    IF CredentialsMissing(args) THEN "credentials"
    ELSE IF SizeInvalid(args.size) THEN "size"
    ELSE IF CountInvalid(args.count) THEN "count"
    ELSE IF ScaleInvalid(args.scale10) THEN "scale"
    ELSE IF PromptList(args, stdin) = <<>> THEN "prompt"
    ELSE "none"

\* lines of a prompt file: empty, a prompt to strip, a comment
FileLines == {<<>>, <<" ", "a">>, <<"#", "a">>}
NoFile == [given |-> FALSE, readable |-> FALSE, lines |-> <<>>]
Files ==
    {[given |-> TRUE, readable |-> FALSE, lines |-> <<>>]}
    \cup {[given |-> TRUE, readable |-> TRUE, lines |-> l] :
            l \in UNION {[1..n -> FileLines] : n \in 0..MaxLines}}
NoPrompt == [given |-> FALSE, text |-> <<>>]
PromptArgs ==
    {NoPrompt} \cup {[given |-> TRUE, text |-> t] : t \in {<<>>, <<" ">>, <<"a">>}}
Stdins ==
    {[eof |-> TRUE, text |-> <<>>]}
    \cup {[eof |-> FALSE, text |-> t] : t \in {<<>>, <<" ">>, <<"a">>}}

\* the prompt sources of an invocation: a prompt file (with or without
\* --prompt beside it), or --prompt and the terminal
PromptSources ==
    {[file |-> f, prompt |-> p, stdin |-> [eof |-> TRUE, text |-> <<>>]] :
        f \in Files, p \in {NoPrompt, [given |-> TRUE, text |-> <<"a">>]}}
    \cup {[file |-> NoFile, prompt |-> p, stdin |-> i] :
            p \in PromptArgs, i \in Stdins}

\* main.py 345-368: the parsed command line and the environment
CliInit ==
    \E ak \in BOOLEAN, sk \in BOOLEAN, size \in {"2048x2048", "999x999"},
       count \in {MinCount - 1, MinCount, MaxCount, MaxCount + 1},
       scale10 \in {MinScale10 - 1, MinScale10, MaxScale10, MaxScale10 + 1},
       src \in PromptSources :
        cli = [pc |-> "validate",
               args |-> [access_key |-> ak, secret_key |-> sk, size |-> size,
                         count |-> count, scale10 |-> scale10,
                         file |-> src.file, prompt |-> src.prompt],
               stdin |-> src.stdin, prompts |-> <<>>, k |-> 1, now |-> 0,
               all_saved_files |-> <<>>, posts |-> 0, downloads |-> 0,
               last |-> [post |-> "none", returned |-> "none", n |-> 0],
               error |-> "none", exit_code |-> -1]

\* main.py 370-417: credentials and validation; sys.exit(1) on the first
\* failure, otherwise the client is created and the loop begins
CliValidate ==
    /\ OnlyCli
    /\ cli.pc = "validate"
    /\ LET e == ValidationError(cli.args, cli.stdin)
       IN  IF e # "none"
           THEN cli' = [cli EXCEPT !.pc = "exited", !.error = e, !.exit_code = 1]
           ELSE cli' = [cli EXCEPT !.pc = "loop",
                                   !.prompts = PromptList(cli.args, cli.stdin)]

\* main.py 153-158: the placeholder returned when the POST raised
\* RequestException: count descriptors with example.com URLs; serves says
\* whether that host answers the downloads
PlaceholderData(count, serves) ==
    [i \in 1..count |->
        [url |-> IF serves THEN "https://ok/img.jpg" ELSE "https://down/img.jpg",
         b64 |-> "None", wr |-> TRUE]]

\* main.py 140-158: what generate_image hands to its caller after a POST
\* that raised RequestException
OnPostFailure(count, serves) ==
    [returned |-> "data", data |-> PlaceholderData(count, serves)]

\* main.py 268-294 as a function: the paths save_images returns
RECURSIVE SavedPaths(_, _, _)
SavedPaths(data, ts, k) ==
    IF k > Len(data) THEN <<>>
    ELSE (IF SaveUrlOutcome(data[k]) = "saved" THEN <<<<ts, k - 1>>>> ELSE <<>>)
            \o SavedPaths(data, ts, k + 1)

\* main.py 280: one requests.get per descriptor whose url starts with http
Downloads(data) == Cardinality({k \in 1..Len(data) : StartsWithHttp(data[k].url)})

\* the data arrays a provider response can carry: descriptors without a
\* url, with one whose download fails, with one whose download succeeds
\* and whose file can or cannot be written
ResponseData ==
    UNION {[1..n -> {d \in Descriptors :
                        /\ d.b64 = "None"
                        /\ d.url # "not-a-url"
                        /\ d.wr \/ d.url = "https://ok/img.jpg"}] :
            n \in 0..MaxData}

\* how one POST can end: "fail" (RequestException: transport failure or a
\* non-2xx status), "data" / "nodata" (a 2xx JSON object with / without the
\* key), "malformed" (a 2xx body that is no JSON object; the exception it
\* causes is a RequestException, caught in generate_image, or not, by kind
\* and by library version).  serves: whether example.com answers downloads
PostOutcomes ==
    {[post |-> "fail", caught |-> TRUE, serves |-> sv, body |-> <<>>] :
        sv \in BOOLEAN}
    \cup {[post |-> "data", caught |-> FALSE, serves |-> FALSE, body |-> b] :
            b \in ResponseData}
    \cup {[post |-> "nodata", caught |-> FALSE, serves |-> FALSE, body |-> <<>>]}
    \cup {[post |-> "malformed", caught |-> TRUE, serves |-> sv, body |-> <<>>] :
            sv \in BOOLEAN}
    \cup {[post |-> "malformed", caught |-> FALSE, serves |-> FALSE, body |-> <<>>]}

\* main.py 138-158: what generate_image hands to its caller
GenerateImage(count, o) ==
    CASE o.post = "fail" -> OnPostFailure(count, o.serves)
      [] o.post = "data" -> [returned |-> "data", data |-> o.body]
      [] o.post = "nodata" -> [returned |-> "nodata", data |-> <<>>]
      [] o.post = "malformed" ->
            IF o.caught THEN OnPostFailure(count, o.serves)
            ELSE [returned |-> "raised", data |-> <<>>]

\* main.py 422-461: one iteration of the prompt loop: generate_image, then
\* save_images when the result has a "data" key; whatever is raised is
\* caught and logged
CliGenerate ==
    /\ OnlyCli
    /\ cli.pc = "loop"
    /\ cli.k <= Len(cli.prompts)
    /\ \E o \in PostOutcomes :
        LET r == GenerateImage(cli.args.count, o)
            saved_files == IF r.returned = "data"
                           THEN SavedPaths(r.data, cli.now, 1) ELSE <<>>
        IN  cli' = [cli EXCEPT
                        !.k = @ + 1,
                        !.posts = @ + 1,
                        !.downloads = @ + Downloads(r.data),
                        !.all_saved_files = @ \o saved_files,
                        !.last = [post |-> o.post, returned |-> r.returned,
                                  n |-> Len(r.data)]]

\* the wall clock reaches the next second between two prompts
CliTick ==
    /\ OnlyCli
    /\ cli.pc = "loop"
    /\ cli.now < MaxClock
    /\ cli' = [cli EXCEPT !.now = @ + 1]

\* main.py 463-470: the summary; main returns and the process exits with 0
CliSummary ==
    /\ OnlyCli
    /\ cli.pc = "loop"
    /\ cli.k > Len(cli.prompts)
    /\ cli' = [cli EXCEPT !.pc = "exited", !.exit_code = 0]

CliNext == CliValidate \/ CliGenerate \/ CliTick \/ CliSummary

InitCli ==
    /\ CliInit
    /\ wait = Idle /\ web = Idle /\ saver = Idle
    /\ disk = Idle /\ serve = Idle /\ listing = Idle /\ signer = Idle

SpecCli == InitCli /\ [][CliNext]_vars

(***************************************************************************)
(* POST /generate: generate() (app.py 132-204) and the generate_image it   *)
(* calls (app.py 30-123).                                                  *)
(*                                                                         *)
(* The JSON body: has_prompt says whether the key is there; the prompt is  *)
(* lead spaces, core non-space characters, trail spaces; count and scale   *)
(* are [ok, v], ok = FALSE standing for a value int() / float() rejects;   *)
(* scale is in tenths.                                                     *)
(***************************************************************************)
\* app.py 167: the longest prompt accepted
MaxPromptLen == 500

\* app.py 149: data.get('prompt', '').strip()
StripPrompt(prompt) == [lead |-> 0, core |-> prompt.core, trail |-> 0]
PromptLen(prompt) == prompt.lead + prompt.core + prompt.trail

\* app.py 164: count = min(max(1, count), 10)
ClampCountMutant(count) == Min(count, MaxCount)
ClampCount(count) == Min(Max(MinCount, count), MaxCount)
\* app.py 182: scale = min(max(0, scale), 1)
ClampScale(scale10) == Min(Max(MinScale10, scale10), MaxScale10)

\* app.py 175: size not in valid_sizes
WebSizeInvalid(size) == size \notin ValidSizes

Bodies ==
    [has_prompt : BOOLEAN,
     prompt : [lead : 0..1, core : {0, 1, MaxPromptLen, MaxPromptLen + 1},
               trail : 0..1],
     size : {"1024x1024", "999x999"},
     count : [ok : {TRUE}, v : {MinCount - 1, MinCount, MaxCount, MaxCount + 1}]
                \cup {[ok |-> FALSE, v |-> 0]},
     scale : [ok : {TRUE},
              v : {MinScale10 - 1, MinScale10, MaxScale10, MaxScale10 + 1}]
                \cup {[ok |-> FALSE, v |-> 0]}]

\* app.py 139: request.get_json()
WebInit ==
    \E data \in Bodies :
        web = [pc |-> "request", data |-> data, status |-> 0,
               message |-> "none", called |-> FALSE, spawned |-> 0,
               call |-> [prompt |-> [lead |-> 0, core |-> 0, trail |-> 0],
                         size |-> "none", count |-> 0, scale10 |-> 0]]

\* app.py 137-192, 200-204: the handler up to the call of generate_image;
\* an exception of int() or float() is answered with 500
WebGenerate ==
    /\ OnlyWeb
    /\ web.pc = "request"
    /\ LET data == web.data
           prompt == StripPrompt(data.prompt)
           reply(st, msg) == [web EXCEPT !.pc = "responded", !.status = st,
                                         !.message = msg]
       IN  IF ~data.has_prompt THEN web' = reply(400, "missing prompt")
           ELSE IF ~data.count.ok \/ ~data.scale.ok
                THEN web' = reply(500, "request failed")
           ELSE IF PromptLen(prompt) = 0 THEN web' = reply(400, "empty prompt")
           ELSE IF PromptLen(prompt) > MaxPromptLen
                THEN web' = reply(400, "prompt too long")
           ELSE IF WebSizeInvalid(data.size) THEN web' = reply(400, "invalid size")
           ELSE web' = [web EXCEPT
                           !.pc = "generate_image",
                           !.called = TRUE,
                           !.call = [prompt |-> prompt, size |-> data.size,
                                     count |-> ClampCount(data.count.v),
                                     scale10 |-> ClampScale(data.scale.v)]]

\* app.py 46-123, 194-198: generate_image runs main.py as a subprocess and
\* lists the images of its output directory.  popen: whether Popen could
\* start it; exit_code: its return code; images: how many image files the
\* output directory holds afterwards
WebRun ==
    /\ OnlyWeb
    /\ web.pc = "generate_image"
    /\ \E popen \in BOOLEAN, exit_code \in {0, 1}, images \in 0..1 :
        LET success == popen /\ exit_code = 0 /\ images > 0
        IN  web' = [web EXCEPT
                        !.pc = "responded",
                        !.spawned = IF popen THEN @ + 1 ELSE @,
                        !.status = IF success THEN 200 ELSE 500,
                        !.message = IF success THEN "success" ELSE "failed"]

WebNext == WebGenerate \/ WebRun

InitWeb ==
    /\ WebInit
    /\ wait = Idle /\ cli = Idle /\ saver = Idle
    /\ disk = Idle /\ serve = Idle /\ listing = Idle /\ signer = Idle

SpecWeb == InitWeb /\ [][WebNext]_vars

(***************************************************************************)
(* Output directories of generation invocations: generate_image of the     *)
(* web server (app.py 46-58) names a directory and runs main.py on it;     *)
(* main.py run by hand writes to args.output (main.py 352), and            *)
(* save_images (main.py 264-286) writes image_<timestamp>_<index>.jpg.     *)
(*                                                                         *)
(* A directory is [base, sub]: base/sub, sub = <<>> for base itself and    *)
(* <<timestamp, task_id>> for "<timestamp>_<task_id>".  disk.files holds   *)
(* <<directory, file name, invocation>> for every write.                   *)
(***************************************************************************)
\* app.py 48: str(uuid.uuid4())[:8], eight hexadecimal digits drawn at random
TaskIds == {"1b9d6bcd", "f47ac10b"}
\* main.py 352: the default of --output, and another directory a user names
CliOutputs == {"output", "pictures"}
Invocations == 1..MaxInv

DiskInit ==
    disk = [now |-> 0,
            inv |-> [i \in Invocations |->
                        [state |-> "new", kind |-> "none",
                         output_dir |-> [base |-> "none", sub |-> <<>>],
                         n |-> 0]],
            files |-> {}]

\* the wall clock reaches the next second
DiskTick ==
    /\ OnlyDisk
    /\ disk.now < MaxClock
    /\ disk' = [disk EXCEPT !.now = @ + 1]

\* app.py 46-58: a POST /generate names its output directory
\* output/<timestamp>_<task_id> and starts main.py with --output on it
DiskStartWeb(i) ==
    /\ OnlyDisk
    /\ disk.inv[i].state = "new"
    /\ \E task_id \in TaskIds :
        disk' = [disk EXCEPT
                    !.inv[i] = [state |-> "running", kind |-> "web",
                                output_dir |-> [base |-> "output",
                                                sub |-> <<disk.now, task_id>>],
                                n |-> 0]]

\* main.py 352: main.py started by hand, with --output or its default
DiskStartCli(i) ==
    /\ OnlyDisk
    /\ disk.inv[i].state = "new"
    /\ \E output \in CliOutputs :
        disk' = [disk EXCEPT
                    !.inv[i] = [state |-> "running", kind |-> "cli",
                                output_dir |-> [base |-> output, sub |-> <<>>],
                                n |-> 0]]

\* main.py 264-286: save_images writes the next image of the invocation;
\* makedirs(exist_ok=True) accepts a directory that is already there and
\* open(filepath, "wb") a file that is
DiskSave(i) ==
    /\ OnlyDisk
    /\ disk.inv[i].state = "running"
    /\ disk.inv[i].n < MaxFiles
    /\ disk' = [disk EXCEPT
                    !.inv[i].n = @ + 1,
                    !.files = @ \cup {<<disk.inv[i].output_dir,
                                        <<disk.now, disk.inv[i].n>>, i>>}]

\* main.py 463-470: the invocation ends
DiskFinish(i) ==
    /\ OnlyDisk
    /\ disk.inv[i].state = "running"
    /\ disk' = [disk EXCEPT !.inv[i].state = "done"]

DiskNext ==
    \/ DiskTick
    \/ \E i \in Invocations : DiskStartCli(i)
    \/ \E i \in Invocations : DiskStartWeb(i)
    \/ \E i \in Invocations : DiskSave(i)
    \/ \E i \in Invocations : DiskFinish(i)

InitDisk ==
    /\ DiskInit
    /\ wait = Idle /\ cli = Idle /\ web = Idle
    /\ saver = Idle /\ serve = Idle /\ listing = Idle /\ signer = Idle

SpecDisk == InitDisk /\ [][DiskNext]_vars

(***************************************************************************)
(* GET /output/<path:filename>: serve_image (app.py 206-219).              *)
(*                                                                         *)
(* The server runs in the directory "app", which holds main.py and the     *)
(* output folder; a path is the sequence of its segments.                  *)
(***************************************************************************)
\* <<directory, name, node>>: the entries of the directories
Entries ==
    {<<"fsroot", "app", "app">>,
     <<"app", "main.py", "file:main.py">>,
     <<"app", "output", "output">>,
     <<"output", "t1", "t1">>,
     <<"t1", "a.jpg", "file:a.jpg">>,
     <<"t1", "sub", "sub">>,
     <<"sub", "deep.jpg", "file:deep.jpg">>}
Dirs == {"fsroot", "app", "output", "t1", "sub"}
Segments == {"..", ".", "t1", "a.jpg", "sub", "deep.jpg", "main.py", "output"}

ParentDir(d) ==
    IF d = "fsroot" THEN "fsroot"
    ELSE (CHOOSE e \in Entries : e[3] = d)[1]

\* the node one segment leads to from a node ("missing" when there is none)
Walk(node, seg) ==
    IF node \notin Dirs THEN "missing"
    ELSE IF seg = "." THEN node
    ELSE IF seg = ".." THEN ParentDir(node)
    ELSE IF \E e \in Entries : e[1] = node /\ e[2] = seg
         THEN (CHOOSE e \in Entries : e[1] = node /\ e[2] = seg)[3]
    ELSE "missing"

\* app.py 217: os.path.join(app.config['OUTPUT_FOLDER'], dir_name): the
\* directory handed to send_from_directory, which trusts it
ServeDirectory(dir_name) == Walk("output", dir_name)

\* app.py 217: send_from_directory(directory, file_name): safe_join refuses
\* a file name that climbs out of the directory, and only a regular file
\* is served; "missing" stands for the 404
SendFromDirectory(directory, file_name) ==
    IF file_name = ".." THEN "missing"
    ELSE LET node == Walk(directory, file_name)
         IN  IF node \in Dirs THEN "missing" ELSE node

ServeInit ==
    \E n \in 1..MaxSegments :
        \E parts \in [1..n -> Segments] :
            serve = [pc |-> "request", parts |-> parts, status |-> 0,
                     served |-> "none"]

\* app.py 207-219: the handler
ServeImage ==
    /\ OnlyServe
    /\ serve.pc = "request"
    /\ LET parts == serve.parts
           node == IF Len(parts) = 2
                   THEN SendFromDirectory(ServeDirectory(parts[1]), parts[2])
                   ELSE "missing"
       IN  serve' = [serve EXCEPT
                        !.pc = "responded",
                        !.status = IF node = "missing" THEN 404 ELSE 200,
                        !.served = IF node = "missing" THEN "none" ELSE node]

ServeNext == ServeImage

InitServe ==
    /\ ServeInit
    /\ wait = Idle /\ cli = Idle /\ web = Idle
    /\ saver = Idle /\ disk = Idle /\ listing = Idle /\ signer = Idle

SpecServe == InitServe /\ [][ServeNext]_vars

(***************************************************************************)
(* GET /output: list_outputs (app.py 221-266).                             *)
(*                                                                         *)
(* An entry of the output folder is [name, ctime, isdir, images]; a name   *)
(* is a number, its rank in the order sorted() gives strings; ctime is     *)
(* the creation time; images says whether it holds an image file.          *)
(***************************************************************************)
\* app.py 254: output_list[:50]
ListCap == 50

RECURSIVE SortedReverse(_)
\* app.py 231: sorted(os.listdir(...), reverse=True): the names, greatest first
SortedReverse(names) ==
    IF names = {} THEN <<>>
    ELSE LET m == CHOOSE x \in names : \A y \in names : y <= x
         IN  <<m>> \o SortedReverse(names \ {m})

\* app.py 231: the order in which the task directories are listed
ListOrder(entries) == SortedReverse({e.name : e \in entries})

\* app.py 233-239: the entries that are listed: directories with an image
Listed(entries) == {e \in entries : e.isdir /\ e.images}

\* app.py 254: output_list[:50]
Cap(list) == SubSeq(list, 1, Min(Len(list), ListCap))

\* app.py 229-254: the task_dir of the tasks returned
ListOutputs(entries) ==
    LET order == ListOrder(entries)
        keep == {e.name : e \in Listed(entries)}
    IN  Cap(SelectSeq(order, LAMBDA n : n \in keep))

\* app.py 28: the output folder at start: empty, or holding ListCap + 1
\* task directories created in the order of their names
ListingInit ==
    \E full \in BOOLEAN :
        listing = [pc |-> "serving",
                   entries |-> IF full
                               THEN {[name |-> MaxNames + k, ctime |-> k,
                                      isdir |-> TRUE, images |-> TRUE] :
                                        k \in 1..(ListCap + 1)}
                               ELSE {},
                   clock |-> ListCap + 1,
                   tasks |-> <<>>, seen |-> {}, responses |-> 0]

\* an invocation (or the user) creates an entry of the output folder
ListingCreate ==
    /\ OnlyListing
    /\ \E name \in 1..MaxNames, isdir \in BOOLEAN, images \in BOOLEAN :
        /\ name \notin {e.name : e \in listing.entries}
        /\ isdir \/ ~images
        /\ listing' = [listing EXCEPT
                          !.clock = @ + 1,
                          !.entries = @ \cup {[name |-> name,
                                                ctime |-> listing.clock + 1,
                                                isdir |-> isdir,
                                                images |-> images]}]

\* app.py 221-260: the handler; seen is the folder as the handler read it
ListingGet ==
    /\ OnlyListing
    /\ listing' = [listing EXCEPT
                      !.tasks = ListOutputs(listing.entries),
                      !.seen = listing.entries,
                      !.responses = 1]

ListingNext == ListingCreate \/ ListingGet

InitListing ==
    /\ ListingInit
    /\ wait = Idle /\ cli = Idle /\ web = Idle
    /\ saver = Idle /\ disk = Idle /\ serve = Idle /\ signer = Idle

SpecListing == InitListing /\ [][ListingNext]_vars

(***************************************************************************)
(* Jimeng4APIClient.__init__ (main.py 30-41), _generate_signature          *)
(* (main.py 43-70) and _prepare_request (main.py 72-104).                  *)
(*                                                                         *)
(* A string built from pieces is the sequence of its pieces; "\n" is the   *)
(* newline.  The keyed hash and the base64 encoding are injective          *)
(* constructors: equal results come from equal arguments only.             *)
(***************************************************************************)
AccessKeys == {"AK-1", "AK-2"}
SecretKeys == {"SK-1", "SK-2"}
\* main.py 127-135: the request data of generate_image
Payloads == {"{prompt: fox}", "{prompt: cat}"}
\* main.py 176: the task ids wait_for_result is called with
StatusTasks == {"t1", "t2"}
\* main.py 138, 176: the calls of _prepare_request; "None" is the default
\* data of the GET
Calls ==
    [method : {"POST"}, path : {"/images/generations"}, data : Payloads]
    \cup [method : {"GET"}, path : {<<"/tasks/", t>> : t \in StatusTasks},
          data : {"None"}]

\* main.py 67: hmac.new(key, msg, hashlib.sha256).digest()
HmacSha256(key, msg) == [hmac |-> "sha256", key |-> key, msg |-> msg]
\* main.py 68: base64.b64encode(..).decode('utf-8')
B64Encode(digest) == [b64 |-> digest]

\* main.py 61-63: headers.get(name, '')
HeaderGet(headers, name) ==
    IF name \in DOMAIN headers THEN headers[name] ELSE ""

\* main.py 59-64: sign_content, every field followed by a newline
SignContentMutant(method, path, headers, body) ==
    <<method, "\n", HeaderGet(headers, "Content-Type"), "\n",
      HeaderGet(headers, "Content-MD5"), "\n",
      HeaderGet(headers, "Date"), "\n", path, "\n", body>>
SignContent(method, path, headers, body) ==
    <<method, "\n", HeaderGet(headers, "Content-Type"), "\n",
      HeaderGet(headers, "Content-MD5"), "\n",
      HeaderGet(headers, "Date"), "\n", path, "\n">>

\* main.py 43-70: _generate_signature
GenerateSignature(secret_key, method, path, headers, body) ==
    B64Encode(HmacSha256(secret_key, SignContent(method, path, headers, body)))

\* main.py 88: datetime.utcnow().strftime('%a, %d %b %Y %H:%M:%S GMT')
HttpDate(now) == <<"GMT second", now>>

\* main.py 72-104: _prepare_request; secret_key is kept beside the request
\* for the verifier, it is not sent
PrepareRequest(access_key, secret_key, now, method, path, data) ==
    LET headers == [h \in {"Content-Type", "User-Agent", "Date"} |->
                        CASE h = "Content-Type" -> "application/json"
                          [] h = "User-Agent" -> "Jimeng4-Image-Generator"
                          [] h = "Date" -> HttpDate(now)]
        body == IF data # "None" THEN data ELSE ""
        signature == GenerateSignature(secret_key, method, path, headers, body)
    IN  [method |-> method, path |-> path, headers |-> headers,
         data |-> body, secret_key |-> secret_key,
         Authorization |-> <<"HMAC-SHA256 ", access_key, ":", signature>>]

NoRequest == [method |-> "none"]

\* main.py 30-41: a client is constructed with its two keys
SignerInit ==
    \E ak \in AccessKeys, sk \in SecretKeys :
        signer = [access_key |-> ak, secret_key |-> sk, now |-> 0,
                  prev |-> NoRequest, last |-> NoRequest]

\* main.py 417: another client, with other keys
SignerNewClient ==
    /\ OnlySigner
    /\ \E ak \in AccessKeys, sk \in SecretKeys :
        /\ <<ak, sk>> # <<signer.access_key, signer.secret_key>>
        /\ signer' = [signer EXCEPT !.access_key = ak, !.secret_key = sk]

\* the wall clock reaches the next second
SignerTick ==
    /\ OnlySigner
    /\ signer.now < MaxClock
    /\ signer' = [signer EXCEPT !.now = @ + 1]

\* main.py 138, 176: generate_image or wait_for_result prepares a request;
\* prev and last are the two latest requests
SignerPrepare ==
    /\ OnlySigner
    /\ \E call \in Calls :
        signer' = [signer EXCEPT
                      !.prev = signer.last,
                      !.last = PrepareRequest(signer.access_key,
                                              signer.secret_key, signer.now,
                                              call.method, call.path,
                                              call.data)]

SignerNext == SignerNewClient \/ SignerTick \/ SignerPrepare

InitSigner ==
    /\ SignerInit
    /\ wait = Idle /\ cli = Idle /\ web = Idle /\ saver = Idle
    /\ disk = Idle /\ serve = Idle /\ listing = Idle

SpecSigner == InitSigner /\ [][SignerNext]_vars

(***************************************************************************)
(* Claims about wait_for_result.                                           *)
(***************************************************************************)
WaitReturned == wait.pc = "done"
WaitTimedOut == WaitReturned /\ wait.result = TimeoutResult

C2_Returned ==
    /\ wait.terminals <= 1
    /\ wait.terminals = 1 => WaitReturned
    /\ WaitReturned =>
        \/ /\ wait.result.status \in {"succeeded", "failed"}
           /\ wait.last = wait.result.status
           /\ wait.terminals = 1
        \/ /\ wait.result = TimeoutResult
           /\ wait.now >= wait.timeout
           /\ wait.terminals = 0

\* the step part of C2: how the wait leaves Pending, and what it does after
C2_Step ==
    /\ (~WaitReturned /\ wait'.pc = "done") =>
        \/ /\ wait.pc = "get"
           /\ wait'.last \in {"succeeded", "failed"}
           /\ wait'.result.status = wait'.last
        \/ /\ wait.pc = "while"
           /\ wait.now >= wait.timeout
           /\ wait'.result = TimeoutResult
    /\ (wait.pc = "get" /\ wait'.pc # "blocked"
            /\ wait'.last \in {"pending", "error"}) => wait'.pc = "sleep"
    /\ wait.pc = "sleep" => wait'.pc = "while"
    /\ (wait.pc = "while" /\ wait.now < wait.timeout) =>
            (wait'.pc = "get" /\ wait'.polls = wait.polls + 1)
    /\ WaitReturned => wait'.polls = wait.polls

RECURSIVE ExpectedSaved(_, _, _)
\* the indices, in input order from k on, of the descriptors whose own
\* data, download and disk write are good
ExpectedSaved(fn, data, k) ==
    IF k > Len(data) THEN <<>>
    ELSE LET d == data[k]
             good == /\ d.wr
                     /\ IF fn = "url" THEN d.url = "https://ok/img.jpg"
                                      ELSE d.b64 = "ok"
         IN  (IF good THEN <<k - 1>> ELSE <<>>) \o ExpectedSaved(fn, data, k + 1)

\* C6: both savers visit every descriptor in input order, a skipped or
\* failed descriptor neither aborts the rest nor raises, and the list
\* returned is exactly the paths written, in input order (so no longer
\* than the input).
C6_BestEffort ==
    /\ ~saver.raised
    /\ saver.visited = [k \in 1..Len(saver.visited) |-> k - 1]
    /\ saver.saved_files = saver.written
    /\ saver.pc = "done" =>
        /\ saver.visited = [k \in 1..Len(saver.images_data) |-> k - 1]
        /\ [k \in 1..Len(saver.saved_files) |-> saver.saved_files[k][2]]
              = ExpectedSaved(saver.fn, saver.images_data, 1)
        /\ Len(saver.saved_files) <= Len(saver.images_data)

\* save_images([{url: "not-a-url"}, {url: "https://ok/img.jpg"}]) has
\* returned exactly one path, that of the second descriptor
C6_Witness ==
    /\ saver.pc = "done"
    /\ saver.fn = "url"
    /\ Len(saver.images_data) = 2
    /\ saver.images_data[1].url = "not-a-url"
    /\ saver.images_data[2].url = "https://ok/img.jpg"
    /\ Len(saver.saved_files) = 1
    /\ saver.saved_files[1][2] = 1

(***************************************************************************)
(* Claims about the CLI orchestrator and generate_image.                   *)
(***************************************************************************)
CliExited == cli.pc = "exited"

\* every prompt source the user supplied is an empty text
EmptyPrompt ==
    IF cli.args.file.given
    THEN \A k \in 1..Len(cli.args.file.lines) : cli.args.file.lines[k] = <<>>
    ELSE /\ cli.args.prompt.given => cli.args.prompt.text = <<>>
         /\ ~cli.stdin.eof => cli.stdin.text = <<>>

\* one of the invalid values the claim lists
ListedInvalid ==
    \/ cli.args.count \in {0, 11}
    \/ cli.args.scale10 \in {-1, 11}
    \/ cli.args.size = "999x999"
    \/ EmptyPrompt

\* C3: an invocation with count=0, count=11, scale=-0.1, scale=1.1,
\* size="999x999" or an empty prompt never issues a request to the
\* provider (no POST, no download), and it ends with exit code 1 and an
\* error, which is a validation error when the credentials are present.
C3_RejectsBeforeNetwork ==
    ListedInvalid =>
        /\ cli.posts = 0
        /\ cli.downloads = 0
        /\ cli.pc \in {"validate", "exited"}
        /\ CliExited =>
            /\ cli.exit_code = 1
            /\ cli.error # "none"
            /\ (cli.args.access_key /\ cli.args.secret_key) =>
                    cli.error \in {"size", "count", "scale", "prompt"}

\* scale=1.1 with everything else valid was rejected as a scale error
C3_Witness ==
    /\ CliExited
    /\ cli.args.scale10 = 11
    /\ cli.args.count = 10
    /\ cli.error = "scale"
    /\ cli.exit_code = 1
    /\ cli.posts = 0

\* C5: when the generation POST fails (transport failure or non-2xx),
\* generate_image surfaces the failure to its caller as an error and
\* returns no image descriptors, never a placeholder result.
C5_SurfacesFailure ==
    cli.last.post = "fail" => (cli.last.returned = "raised" /\ cli.last.n = 0)

\* the invocation has some source of a prompt that is neither blank nor,
\* in a prompt file, a comment
UsablePrompt ==
    IF cli.args.file.given
    THEN /\ cli.args.file.readable
         /\ \E k \in 1..Len(cli.args.file.lines) :
                LET l == cli.args.file.lines[k]
                IN  \E j \in 1..Len(l) :
                        /\ l[j] \notin {" ", "#"}
                        /\ \A h \in 1..(j - 1) : l[h] = " "
    ELSE \/ cli.args.prompt.given /\ Len(cli.args.prompt.text) > 0
         \/ /\ ~cli.stdin.eof
            /\ \E j \in 1..Len(cli.stdin.text) : cli.stdin.text[j] # " "

\* a credential is missing or a validation check fails
InvalidInvocation ==
    \/ ~cli.args.access_key
    \/ ~cli.args.secret_key
    \/ cli.args.size \notin ValidSizes
    \/ cli.args.count \notin 1..10
    \/ cli.args.scale10 \notin 0..10
    \/ ~UsablePrompt

WebResponded == web.pc = "responded"

\* the prompt is missing, empty once stripped, or longer than 500
WebPromptBad ==
    \/ ~web.data.has_prompt
    \/ web.data.prompt.core = 0
    \/ web.data.prompt.core > 500
WebSizeBad == web.data.size \notin ValidSizes
WebCountBad == ~web.data.count.ok \/ web.data.count.v \notin 1..10
WebScaleBad == ~web.data.scale.ok \/ web.data.scale.v \notin 0..10

\* C4 (as stated): whenever prompt, size, count or scale violates its
\* constraint, the handler answers 400 with a message and never calls
\* generate_image nor spawns a subprocess.
C4_AsStated ==
    (WebPromptBad \/ WebSizeBad \/ WebCountBad \/ WebScaleBad) =>
        /\ ~web.called
        /\ web.spawned = 0
        /\ WebResponded => (web.status = 400 /\ web.message # "none")

\* C4 (amended): a missing, empty or over-long prompt or a size outside
\* the six allowed strings is answered with 400 and a message (500 when
\* count or scale is not a number) without calling generate_image or
\* spawning a subprocess; a non-numeric count or scale is answered with
\* 500, also without executing; a numeric count or scale out of range is
\* not rejected: it is clamped into [1,10] / [0,1] and the request runs
\* with the clamped value.
C4_RejectsOrClamps ==
    /\ (WebPromptBad \/ WebSizeBad \/ ~web.data.count.ok \/ ~web.data.scale.ok) =>
        /\ ~web.called
        /\ web.spawned = 0
        /\ WebResponded =>
            /\ web.message # "none"
            /\ web.status = IF web.data.has_prompt
                               /\ (~web.data.count.ok \/ ~web.data.scale.ok)
                            THEN 500 ELSE 400
    /\ web.called =>
        /\ web.call.count \in 1..10
        /\ web.call.scale10 \in 0..10
        /\ web.data.count.v \in 1..10 => web.call.count = web.data.count.v
        /\ web.data.count.v < 1 => web.call.count = 1
        /\ web.data.count.v > 10 => web.call.count = 10
        /\ web.data.scale.v \in 0..10 => web.call.scale10 = web.data.scale.v
        /\ web.data.scale.v < 0 => web.call.scale10 = 0
        /\ web.data.scale.v > 10 => web.call.scale10 = 10
        /\ web.call.size = web.data.size
    /\ (WebResponded /\ ~web.called) =>
        (WebPromptBad \/ WebSizeBad \/ ~web.data.count.ok \/ ~web.data.scale.ok)

\* a request with count=0 and scale=1.1 ran with count 1 and scale 1.0
C4_Witness ==
    /\ WebResponded
    /\ web.data.count.v = 0
    /\ web.data.scale.v = 11
    /\ web.called
    /\ web.spawned = 1
    /\ web.call.count = 1
    /\ web.call.scale10 = 10
    /\ web.status = 200

(***************************************************************************)
(* Claims about output directories and GET /output/<path>.                 *)
(***************************************************************************)
\* C8: any two generation invocations write to different output
\* directories, so every file under an output directory was produced by
\* exactly one invocation.
C8_OneWriter ==
    /\ \A i, j \in Invocations :
        (i # j /\ disk.inv[i].state # "new" /\ disk.inv[j].state # "new") =>
            disk.inv[i].output_dir # disk.inv[j].output_dir
    /\ \A f, g \in disk.files : (f[1] = g[1] /\ f[2] = g[2]) => f[3] = g[3]

\* the files inside a task directory directly under the output folder
TaskFiles ==
    {e[3] : e \in {x \in Entries :
                    /\ x[3] \notin Dirs
                    /\ x[1] # "output"
                    /\ ParentDir(x[1]) = "output"}}

\* C9: GET /output/<path> serves a file only when the path has the shape
\* <directory name>/<file name> and names a file inside a task directory
\* directly under the output folder; every other path (one segment, three
\* or more, or a segment such as ".." that leaves the output folder) is
\* answered with 404.
C9_OnlyTaskFiles ==
    serve.pc = "responded" =>
        /\ serve.status = 200 =>
            /\ Len(serve.parts) = 2
            /\ serve.served \in TaskFiles
        /\ (\/ Len(serve.parts) # 2
            \/ \E k \in 1..Len(serve.parts) : serve.parts[k] = "..") =>
                serve.status = 404

(***************************************************************************)
(* Claims about GET /output.                                               *)
(***************************************************************************)
CtimeOf(name) == (CHOOSE e \in listing.seen : e.name = name).ctime

\* C10: GET /output returns at most 50 tasks, each an output directory
\* that holds an image, ordered by creation time with the most recent
\* first, and no directory left out is more recent than one returned.
C10_MostRecentFirst ==
    listing.responses > 0 =>
        LET tasks == listing.tasks
            names == {tasks[k] : k \in 1..Len(tasks)}
        IN  /\ Len(tasks) <= 50
            /\ \A n \in names : \E e \in listing.seen :
                    e.name = n /\ e.isdir /\ e.images
            /\ \A k \in 1..(Len(tasks) - 1) :
                    CtimeOf(tasks[k]) > CtimeOf(tasks[k + 1])
            /\ \A e \in listing.seen :
                    (e.isdir /\ e.images /\ e.name \notin names) =>
                        /\ Len(tasks) = 50
                        /\ \A n \in names : CtimeOf(n) > e.ctime

(***************************************************************************)
(* Claims about the request signature.                                     *)
(***************************************************************************)
Prepared(r) == r.method # "none"
Credential(r) == r.Authorization[4]

\* the five fields the canonical string is made of
CanonicalFields(r) ==
    <<r.method, HeaderGet(r.headers, "Content-Type"),
      HeaderGet(r.headers, "Content-MD5"), HeaderGet(r.headers, "Date"),
      r.path>>

\* the fields joined by newlines: a newline between two fields, none at
\* the end
NewlineJoined(fields) ==
    [k \in 1..(2 * Len(fields) - 1) |->
        IF k % 2 = 1 THEN fields[(k + 1) \div 2] ELSE "\n"]
\* the fields each followed by a newline
NewlineTerminated(fields) ==
    [k \in 1..(2 * Len(fields)) |->
        IF k % 2 = 1 THEN fields[(k + 1) \div 2] ELSE "\n"]

\* the only thing the credential may depend on
SameSignedInputs(r, q) ==
    /\ CanonicalFields(r) = CanonicalFields(q)
    /\ r.secret_key = q.secret_key

\* C11 (as stated): the credential attached is the one a verifier computes,
\* with the same secret, over the newline-joined string of METHOD,
\* Content-Type, Content-MD5, Date and Path, and two requests with the
\* same (method, headers, path, secret) carry the same credential.
C11_AsStated ==
    /\ Prepared(signer.last) =>
        Credential(signer.last) =
            B64Encode(HmacSha256(signer.last.secret_key,
                                 NewlineJoined(CanonicalFields(signer.last))))
    /\ (Prepared(signer.prev) /\ SameSignedInputs(signer.prev, signer.last)) =>
            Credential(signer.prev) = Credential(signer.last)

\* C11 (amended): the credential attached is the one a verifier computes,
\* with the same secret, over METHOD, Content-Type, Content-MD5 (empty when
\* absent), Date and Path each followed by a newline, and with no other
\* secret; two requests with the same five fields and secret carry the
\* same credential, whatever their bodies and access keys.
C11_VerifierAccepts ==
    /\ Prepared(signer.last) =>
        /\ \A sk \in SecretKeys :
            (Credential(signer.last) =
                B64Encode(HmacSha256(sk,
                    NewlineTerminated(CanonicalFields(signer.last)))))
            <=> sk = signer.last.secret_key
        /\ HeaderGet(signer.last.headers, "Content-MD5") = ""
        /\ signer.last.Authorization[1] = "HMAC-SHA256 "
    /\ (Prepared(signer.prev) /\ SameSignedInputs(signer.prev, signer.last)) =>
            Credential(signer.prev) = Credential(signer.last)

\* two requests of the same second, method, path and secret whose bodies
\* and access keys differ carry the same credential
C11_Witness ==
    /\ Prepared(signer.prev)
    /\ Prepared(signer.last)
    /\ SameSignedInputs(signer.prev, signer.last)
    /\ signer.prev.data # signer.last.data
    /\ signer.prev.Authorization[2] # signer.last.Authorization[2]
    /\ Credential(signer.prev) = Credential(signer.last)

(***************************************************************************)
(* Claims about the termination of wait_for_result.                        *)
(***************************************************************************)
\* C12: every call of wait_for_result returns, whatever the provider does:
\* a call that has not returned yet can always take a further step, also
\* when a status request fails, answers slowly or never answers.
C12_AlwaysReturns == WaitReturned \/ ENABLED WaitNext

(***************************************************************************)
(* Claims about the files of one CLI invocation.                           *)
(***************************************************************************)
\* C13: within one invocation, the paths appended to all_saved_files are
\* pairwise distinct, so no save writes over a file of an earlier prompt,
\* also when two prompts are saved within the same second.
C13_DistinctPaths ==
    \A i, j \in 1..Len(cli.all_saved_files) :
        i # j => cli.all_saved_files[i] # cli.all_saved_files[j]

====
